---- MODULE Spec2Model ----
(***************************************************************************)
(* Genome-Automaton: the linear-chain DFA (src/automata_engine.py), the    *)
(* complement-palindrome PDA (src/pda_engine.py) and the engine factory    *)
(* (src/automata_factory.py).                                              *)
(*                                                                         *)
(* A Python str is a sequence of one-character strings.  One behaviour     *)
(* follows one engine instance from its construction; `seq` is the DNA     *)
(* sequence its caller scans, `ret` what the most recent call returned,    *)
(* `log` the most recent symbols handed to step since the last reset and   *)
(* `scan` the loop variables of a find_all_matches call that is running.   *)
(***************************************************************************)
EXTENDS Integers, Sequences, FiniteSets, TLC

VARIABLES engine, pattern, transitions, current_state, min_len, stack, pos,
          mode, seq, ret, prevFind, log, scan

vars == <<engine, pattern, transitions, current_state, min_len, stack, pos,
          mode, seq, ret, prevFind, log, scan>>

(* ------------------------------ bounds -------------------------------- *)
MaxPatLen == 3
MaxSeqLen == 4
MaxCallSeqLen == 3
MaxMinLen == 4
MaxPos == 2
ScenarioLen == 7
MaxNarrationPos == 10

(* --------------------------- program constants ------------------------ *)
Alphabet == {"A", "T", "G", "C"}
StackDepth == 8
MinLenFloor == 2
DefaultMinLen == 4
DefaultLabel == <<"PALINDROME">>
AutomataType == [DFA |-> "DFA", NFA |-> "NFA", ENFA |-> "ENFA", PDA |-> "PDA"]

(* ------------------------------ inputs -------------------------------- *)
SeqsUpTo(S, n) == UNION {[1..k -> S] : k \in 0..n}

PatChars == {"A", "T", "g"}
Patterns == SeqsUpTo(PatChars, MaxPatLen)
DFAChars == {"A", "T", "G", "N", "a"}
PDAChars == {"A", "T", "G", "C", "N", "?", "a"}
CallChars == {"A", "T", "N"}
StepSyms == {"A", "T", "N", "g"}
MinLens == 0..MaxMinLen
\* Patterns handed to the engines that do not match by pattern.
Labels == {<<>>, <<"A", "T">>}
Tags == {"DFA", "NFA", "ENFA", "PDA", "XYZ", "LBA"}
\* Patterns that may hold a character outside the alphabet.
AnyPatChars == {"A", "T", "N", "g"}
AnyPatterns == SeqsUpTo(AnyPatChars, MaxPatLen)
NarrationSyms == {"A", "n", "?"}
ScanChars == {"A", "T", "N", "?"}

(* ------------------------------ str.upper ----------------------------- *)
Upper(c) ==
    CASE c = "a" -> "A"
      [] c = "t" -> "T"
      [] c = "g" -> "G"
      [] c = "c" -> "C"
      [] c = "n" -> "N"
      [] OTHER -> c

UpperStr(s) == [i \in 1..Len(s) |-> Upper(s[i])]

(* --------------------------- return values ---------------------------- *)
NoRet == [op |-> "none", arg |-> "", old |-> 0, accept |-> FALSE,
          matches |-> <<>>, raised |-> "", msg |-> <<>>]

(* ------------------------- DFA: construction -------------------------- *)
\* get_states, get_initial_states, get_accept_states
GetStates(p) == 0..(Len(p) - 1)
GetInitialStates == {0}
GetAcceptStates == {0}

BuildLinearChainRestartsAlways(p) ==
    LET n == Len(p) IN
    IF n = 0
    THEN [k \in {0} \X Alphabet |-> 0]
    ELSE [k \in (0..(n - 1)) \X Alphabet |->
            IF k[2] = p[k[1] + 1]
            THEN (IF k[1] = n - 1 THEN 0 ELSE k[1] + 1)
            ELSE (IF k[1] # 0 THEN 1 ELSE 0)]

BuildLinearChainNoRestart(p) ==
    LET n == Len(p) IN
    IF n = 0
    THEN [k \in {0} \X Alphabet |-> 0]
    ELSE [k \in (0..(n - 1)) \X Alphabet |->
            IF k[2] = p[k[1] + 1]
            THEN (IF k[1] = n - 1 THEN 0 ELSE k[1] + 1)
            ELSE 0]

BuildLinearChain(p) ==
    LET n == Len(p) IN
    IF n = 0
    THEN [k \in {0} \X Alphabet |-> 0]
    ELSE [k \in (0..(n - 1)) \X Alphabet |->
            IF k[2] = p[k[1] + 1]
            THEN (IF k[1] = n - 1 THEN 0 ELSE k[1] + 1)
            ELSE (IF k[2] = p[1] /\ k[1] # 0 THEN 1 ELSE 0)]

\* get_transitions: the table in nondeterministic form
GetTransitions(tr) == [k \in DOMAIN tr |-> {tr[k]}]

(* ----------------------------- DFA: reset ----------------------------- *)
ResetKeepsState(cs) == cs

ResetState(cs) == 0

(* ----------------------------- DFA: step ------------------------------ *)
TransGet(tr, s, sym) == IF <<s, sym>> \in DOMAIN tr THEN tr[<<s, sym>>] ELSE 0

\* is_match: Python's `and` evaluates pattern[-1] only when the first two
\* conjuncts hold; on an empty pattern that subscript raises IndexError.
IsMatchEagerLast(p, cs, next, sym) ==
    IF Len(p) = 0 THEN "IndexError"
    ELSE IF cs = Len(p) - 1 /\ next = 0 /\ sym = p[Len(p)] THEN "yes" ELSE "no"

IsMatch(p, cs, next, sym) ==
    IF cs = Len(p) - 1 /\ next = 0
    THEN (IF Len(p) = 0 THEN "IndexError"
          ELSE IF sym = p[Len(p)] THEN "yes" ELSE "no")
    ELSE "no"

InAlphabetAlways(sym) == TRUE

InAlphabet(sym) == sym \in Alphabet

\* The outcome of DFA.step from state cs: the state it leaves, the accept
\* flag, and the exception it raised ("" when it returned).  The narration
\* string of _format_transition is not part of the state.
DFAStepResult(p, tr, cs, symbol) ==
    LET sym == Upper(symbol) IN
    IF InAlphabet(sym)
    THEN LET next == TransGet(tr, cs, sym)
             m == IsMatch(p, cs, next, sym)
         IN IF m = "IndexError"
            THEN [state |-> cs, accept |-> FALSE, raised |-> "IndexError"]
            ELSE [state |-> next, accept |-> (m = "yes"), raised |-> ""]
    ELSE [state |-> cs, accept |-> FALSE, raised |-> ""]

(* ------------------------ DFA: find_all_matches ----------------------- *)
MatchWindowOffByOne(p, i) == <<i - Len(p), i>>

\* The window recorded for an accept at scan index i.
MatchWindow(p, i) == <<i - Len(p) + 1, i>>

\* The loop of find_all_matches from scan index i (0-based) in state cs;
\* an exception of step leaves the loop with the state step left.
RECURSIVE DFAScan(_, _, _, _, _, _)
DFAScan(p, tr, cs, s, i, matches) ==
    IF i >= Len(s)
    THEN [state |-> cs, matches |-> matches, raised |-> ""]
    ELSE LET r == DFAStepResult(p, tr, cs, s[i + 1]) IN
         IF r.raised # ""
         THEN [state |-> r.state, matches |-> matches, raised |-> r.raised]
         ELSE DFAScan(p, tr, r.state, s, i + 1,
                      IF r.accept
                      THEN Append(matches, MatchWindow(p, i))
                      ELSE matches)

(* --------------------------- PDA: complement -------------------------- *)
Comp(base) ==
    CASE base = "A" -> "T"
      [] base = "T" -> "A"
      [] base = "G" -> "C"
      [] base = "C" -> "G"
      [] OTHER -> "?"

(* ------------------------ PDA: find_all_matches ----------------------- *)
EffectiveMinLen(ml) == IF ml > MinLenFloor THEN ml ELSE MinLenFloor

\* expand(l, r): 0-based indices into s; the last valid window (L, R).
ExpandStopsEarly(s, l, r) ==
    IF l >= 0 /\ r < Len(s) /\ Comp(s[l + 1]) = s[r + 1]
    THEN <<l, r>>
    ELSE <<l + 1, r - 1>>

RECURSIVE Expand(_, _, _)
Expand(s, l, r) ==
    IF l >= 0 /\ r < Len(s) /\ Comp(s[l + 1]) = s[r + 1]
    THEN Expand(s, l - 1, r + 1)
    ELSE <<l + 1, r - 1>>

\* The list `matches` after the loop over the centers (i, i+1), i < n - 1.
RECURSIVE Candidates(_, _, _, _)
Candidates(s, ml, i, matches) ==
    IF i >= Len(s) - 1
    THEN matches
    ELSE LET w == Expand(s, i, i + 1) IN
         Candidates(s, ml, i + 1,
                    IF w[2] - w[1] + 1 >= ml THEN Append(matches, w) ELSE matches)

LexLess(a, b) == a[1] < b[1] \/ (a[1] = b[1] /\ a[2] < b[2])

\* sorted(set(matches))
RECURSIVE SortedOf(_)
SortedOf(S) ==
    IF S = {} THEN <<>>
    ELSE LET m == CHOOSE x \in S : \A y \in S \ {x} : LexLess(x, y)
         IN <<m>> \o SortedOf(S \ {m})

Range(f) == {f[i] : i \in DOMAIN f}

PDAFindAllMatches(sequence, ml) ==
    SortedOf(Range(Candidates(UpperStr(sequence), ml, 0, <<>>)))

(* ----------------------------- PDA: step ------------------------------ *)
PDAStepResultDropsNewest(st, p, symbol) ==
    LET pushed == Append(st, Upper(symbol)) IN
    IF Len(pushed) > StackDepth
    THEN [stack |-> st, pos |-> p + 1, mode |-> "pop"]
    ELSE [stack |-> pushed, pos |-> p + 1, mode |-> "push"]

PDAStepResultPopsAtDepth(st, p, symbol) ==
    LET pushed == Append(st, Upper(symbol)) IN
    IF Len(pushed) >= StackDepth
    THEN [stack |-> Tail(pushed), pos |-> p + 1, mode |-> "pop"]
    ELSE [stack |-> pushed, pos |-> p + 1, mode |-> "push"]

PDAStepResult(st, p, symbol) ==
    LET pushed == Append(st, Upper(symbol)) IN
    IF Len(pushed) > StackDepth
    THEN [stack |-> Tail(pushed), pos |-> p + 1, mode |-> "pop"]
    ELSE [stack |-> pushed, pos |-> p + 1, mode |-> "push"]

(* ------------------------------ factory ------------------------------- *)
Supported == {AutomataType.DFA, AutomataType.NFA, AutomataType.ENFA, AutomataType.PDA}

IsSupportedAnything(tag) == TRUE

IsSupported(tag) == tag \in Supported

ErrorMessage(tag) == <<"Unsupported automata type: ", tag>>

(* ------------------------------- state -------------------------------- *)
\* No find_all_matches call is running.
NoScan == [active |-> FALSE, i |-> 0, matches |-> <<>>, interleaved |-> FALSE]

\* The last `depth` elements of s.
KeepLast(s, depth) ==
    IF Len(s) <= depth THEN s ELSE SubSeq(s, Len(s) - depth + 1, Len(s))

\* step has read `symbol`: the log keeps the last `depth` symbols read.
Logged(symbol, depth) == log' = KeepLast(Append(log, Upper(symbol)), depth)

NoEngine ==
    /\ engine = "none"
    /\ pattern = <<>>
    /\ transitions = <<>>
    /\ current_state = 0
    /\ min_len = 0
    /\ stack = <<>>
    /\ pos = 0
    /\ mode = "push"
    /\ ret = NoRet
    /\ prevFind = <<>>
    /\ log = <<>>
    /\ scan = NoScan

\* The list the call before the last returned, when it was find_all_matches.
Remember == prevFind' = IF ret.op = "find" /\ ret.raised = "" THEN <<ret.matches>> ELSE <<>>

DFAFields == <<pattern, transitions, current_state>>
PDAFields == <<min_len, stack, pos, mode>>

(* --------------------------- constructors ----------------------------- *)
\* DFA.__init__
NewDFA(p) ==
    /\ engine = "none"
    /\ engine' = "DFA"
    /\ pattern' = UpperStr(p)
    /\ transitions' = BuildLinearChain(UpperStr(p))
    /\ current_state' = 0
    /\ ret' = [NoRet EXCEPT !.op = "new"]
    /\ Remember
    /\ UNCHANGED <<PDAFields, seq, log, scan>>

\* PDA.__init__
NewPDA(p, ml) ==
    /\ engine = "none"
    /\ engine' = "PDA"
    /\ pattern' = p
    /\ min_len' = EffectiveMinLen(ml)
    /\ stack' = <<>>
    /\ pos' = 0
    /\ mode' = "push"
    /\ ret' = [NoRet EXCEPT !.op = "new"]
    /\ Remember
    /\ UNCHANGED <<transitions, current_state, seq, log, scan>>

\* create_automaton(automata_type, pattern)
CreateAutomaton(tag, p) ==
    /\ engine = "none"
    /\ IF ~IsSupported(tag)
       THEN /\ ret' = [NoRet EXCEPT !.op = "create", !.arg = tag,
                                    !.raised = "ValueError", !.msg = ErrorMessage(tag)]
            /\ UNCHANGED <<engine, DFAFields, PDAFields>>
       ELSE /\ ret' = [NoRet EXCEPT !.op = "create", !.arg = tag]
            /\ IF tag = AutomataType.DFA
               THEN /\ engine' = "DFA"
                    /\ pattern' = UpperStr(p)
                    /\ transitions' = BuildLinearChain(UpperStr(p))
                    /\ current_state' = 0
                    /\ UNCHANGED PDAFields
               ELSE IF tag = AutomataType.PDA
               THEN /\ engine' = "PDA"
                    /\ pattern' = (IF p = <<>> THEN DefaultLabel ELSE p)
                    /\ min_len' = EffectiveMinLen(DefaultMinLen)
                    /\ stack' = <<>>
                    /\ pos' = 0
                    /\ mode' = "push"
                    /\ UNCHANGED <<transitions, current_state>>
               ELSE /\ engine' = (IF tag = AutomataType.NFA THEN "NFA" ELSE "ENFA")
                    /\ pattern' = p
                    /\ UNCHANGED <<transitions, current_state, PDAFields>>
    /\ Remember
    /\ UNCHANGED <<seq, log, scan>>

(* ------------------------------ DFA calls ----------------------------- *)
\* DFA.reset
DFA_reset ==
    /\ engine = "DFA"
    /\ ~scan.active
    /\ current_state' = ResetState(current_state)
    /\ ret' = [NoRet EXCEPT !.op = "reset"]
    /\ Remember
    /\ log' = <<>>
    /\ UNCHANGED <<engine, pattern, transitions, PDAFields, seq, scan>>

\* DFA.step(symbol), the log keeping the last `depth` symbols
DFAStepCall(symbol, depth) ==
    /\ engine = "DFA"
    /\ ~scan.active
    /\ LET r == DFAStepResult(pattern, transitions, current_state, symbol) IN
       /\ current_state' = r.state
       /\ ret' = [NoRet EXCEPT !.op = "step", !.arg = symbol, !.old = current_state,
                               !.accept = r.accept, !.raised = r.raised]
    /\ Remember
    /\ Logged(symbol, depth)
    /\ UNCHANGED <<engine, pattern, transitions, PDAFields, seq, scan>>

DFA_step(symbol) == DFAStepCall(symbol, 0)

\* DFA.find_all_matches(seq)
DFA_find_all_matches ==
    /\ engine = "DFA"
    /\ ~scan.active
    /\ LET r == DFAScan(pattern, transitions, ResetState(current_state), seq, 0, <<>>) IN
       IF r.raised = ""
       THEN /\ current_state' = ResetState(r.state)
            /\ ret' = [NoRet EXCEPT !.op = "find", !.matches = r.matches]
       ELSE /\ current_state' = r.state
            /\ ret' = [NoRet EXCEPT !.op = "find", !.raised = r.raised]
    /\ Remember
    /\ log' = <<>>
    /\ UNCHANGED <<engine, pattern, transitions, PDAFields, seq, scan>>

(* ------------- DFA.find_all_matches, one loop pass at a time ---------- *)
\* The call starts: matches = [], self.reset()
FindBegin ==
    /\ engine = "DFA"
    /\ ~scan.active
    /\ current_state' = ResetState(current_state)
    /\ scan' = [active |-> TRUE, i |-> 0, matches |-> <<>>, interleaved |-> FALSE]
    /\ ret' = [NoRet EXCEPT !.op = "running"]
    /\ Remember
    /\ log' = <<>>
    /\ UNCHANGED <<engine, pattern, transitions, PDAFields, seq>>

\* One pass of the for loop: self.step(base), then the append on a match
FindLoop ==
    /\ scan.active
    /\ scan.i < Len(seq)
    /\ LET r == DFAStepResult(pattern, transitions, current_state, seq[scan.i + 1]) IN
       /\ current_state' = r.state
       /\ IF r.raised = ""
          THEN /\ scan' = [scan EXCEPT !.i = scan.i + 1,
                                       !.matches = IF r.accept
                                                   THEN Append(scan.matches,
                                                               MatchWindow(pattern, scan.i))
                                                   ELSE scan.matches]
               /\ UNCHANGED ret
          ELSE /\ scan' = [NoScan EXCEPT !.interleaved = scan.interleaved]
               /\ ret' = [NoRet EXCEPT !.op = "find", !.raised = r.raised]
    /\ UNCHANGED <<engine, pattern, transitions, PDAFields, seq, prevFind, log>>

\* The loop is over: self.reset(), return matches
FindReturn ==
    /\ scan.active
    /\ scan.i >= Len(seq)
    /\ current_state' = ResetState(current_state)
    /\ ret' = [NoRet EXCEPT !.op = "find", !.matches = scan.matches]
    /\ scan' = [NoScan EXCEPT !.interleaved = scan.interleaved]
    /\ UNCHANGED <<engine, pattern, transitions, PDAFields, seq, prevFind, log>>

\* A second caller's step(symbol) on the same instance, between two loop
\* passes of the running call; its return value goes to that caller.
OtherCallerStep(symbol) ==
    /\ scan.active
    /\ scan.i > 0
    /\ scan.i < Len(seq)
    /\ current_state' = DFAStepResult(pattern, transitions, current_state, symbol).state
    /\ scan' = [scan EXCEPT !.interleaved = TRUE]
    /\ UNCHANGED <<engine, pattern, transitions, PDAFields, seq, ret, prevFind, log>>

(* ------------------------------ PDA calls ----------------------------- *)
\* PDA.reset
PDA_reset ==
    /\ engine = "PDA"
    /\ stack' = <<>>
    /\ pos' = 0
    /\ mode' = "push"
    /\ ret' = [NoRet EXCEPT !.op = "reset"]
    /\ Remember
    /\ log' = <<>>
    /\ UNCHANGED <<engine, DFAFields, min_len, seq, scan>>

\* PDA.step(symbol); the cursor is capped at `cap`, the log keeps the last
\* `depth` symbols
PDAStepCall(symbol, cap, depth) ==
    /\ engine = "PDA"
    /\ pos < cap
    /\ LET r == PDAStepResult(stack, pos, symbol) IN
       /\ stack' = r.stack
       /\ pos' = r.pos
       /\ mode' = r.mode
    /\ ret' = [NoRet EXCEPT !.op = "step", !.arg = symbol]
    /\ Remember
    /\ Logged(symbol, depth)
    /\ UNCHANGED <<engine, DFAFields, min_len, seq, scan>>

PDA_step(symbol) == PDAStepCall(symbol, MaxPos, 0)

\* PDA.find_all_matches(seq): reads min_len, writes no field
PDA_find_all_matches ==
    /\ engine = "PDA"
    /\ ret' = [NoRet EXCEPT !.op = "find", !.matches = PDAFindAllMatches(seq, min_len)]
    /\ Remember
    /\ UNCHANGED <<engine, DFAFields, PDAFields, seq, log, scan>>

(* --------------------------- specifications --------------------------- *)
\* One engine of any kind, driven by any calls, over short sequences.
Init == NoEngine /\ seq \in SeqsUpTo(CallChars, MaxCallSeqLen)

Next ==
    \/ \E tag \in Tags :
          \E p \in (IF tag = AutomataType.DFA THEN Patterns ELSE Labels) :
              CreateAutomaton(tag, p)
    \/ \E p \in Patterns : NewDFA(p)
    \/ \E ml \in MinLens : NewPDA(DefaultLabel, ml)
    \/ DFA_reset
    \/ \E symbol \in StepSyms : DFA_step(symbol)
    \/ DFA_find_all_matches
    \/ PDA_reset
    \/ \E symbol \in StepSyms : PDA_step(symbol)
    \/ PDA_find_all_matches

Spec == Init /\ [][Next]_vars

\* The linear-chain engine scanning every sequence.
InitDFAScan == NoEngine /\ seq \in SeqsUpTo(DFAChars, MaxSeqLen)

NextDFAScan ==
    \/ \E p \in Patterns : NewDFA(p)
    \/ DFA_find_all_matches
    \/ DFA_reset

SpecDFAScan == InitDFAScan /\ [][NextDFAScan]_vars

\* The palindrome finder scanning every sequence.
InitPDAScan == NoEngine /\ seq \in SeqsUpTo(PDAChars, MaxSeqLen)

NextPDAScan ==
    \/ \E ml \in MinLens : NewPDA(DefaultLabel, ml)
    \/ PDA_find_all_matches
    \/ PDA_reset

SpecPDAScan == InitPDAScan /\ [][NextPDAScan]_vars

\* Either engine scanning every sequence.
InitScan == NoEngine /\ seq \in SeqsUpTo(ScanChars, MaxSeqLen)

NextScan ==
    \/ \E p \in Patterns : NewDFA(p)
    \/ \E ml \in MinLens : NewPDA(DefaultLabel, ml)
    \/ DFA_find_all_matches
    \/ PDA_find_all_matches

SpecScan == InitScan /\ [][NextScan]_vars

\* Pattern "ATG" scanning every sequence over the alphabet.
ATG == <<"A", "T", "G">>
CATGATG == <<"C", "A", "T", "G", "A", "T", "G">>

InitScenario == NoEngine /\ seq \in SeqsUpTo(Alphabet, ScenarioLen)

NextScenario ==
    \/ NewDFA(ATG)
    \/ DFA_find_all_matches
    \/ DFA_reset

SpecScenario == InitScenario /\ [][NextScenario]_vars

\* The linear-chain engine stepped symbol by symbol, the log keeping as
\* many symbols as the longest pattern has.
InitDFAStep == NoEngine /\ seq = <<>>

NextDFAStep ==
    \/ \E p \in AnyPatterns : NewDFA(p)
    \/ DFA_reset
    \/ \E symbol \in StepSyms : DFAStepCall(symbol, MaxPatLen)

SpecDFAStep == InitDFAStep /\ [][NextDFAStep]_vars

\* The palindrome engine's narration stack stepped past its depth, the log
\* keeping every symbol read since the last reset.
InitNarration == NoEngine /\ seq = <<>>

NextNarration ==
    \/ NewPDA(DefaultLabel, DefaultMinLen)
    \/ PDA_reset
    \/ \E symbol \in NarrationSyms :
          PDAStepCall(symbol, MaxNarrationPos, MaxNarrationPos)

SpecNarration == InitNarration /\ [][NextNarration]_vars

\* Two callers on one linear-chain engine: one runs find_all_matches, the
\* other steps the engine between its loop passes.
InitRace == NoEngine /\ seq \in SeqsUpTo(CallChars, MaxCallSeqLen)

NextRace ==
    \/ \E p \in Patterns : NewDFA(p)
    \/ \E symbol \in StepSyms : DFA_step(symbol)
    \/ FindBegin
    \/ FindLoop
    \/ FindReturn
    \/ \E symbol \in StepSyms : OtherCallerStep(symbol)

SpecRace == InitRace /\ [][NextRace]_vars

(* ============================== claims ================================ *)
Found == ret.op = "find" /\ ret.raised = ""
Scanned == UpperStr(seq)
Returned == Range(ret.matches)
Count(list, w) == Cardinality({k \in DOMAIN list : list[k] = w})
OccursAt(s) == SubSeq(Scanned, s + 1, s + Len(pattern)) = pattern

\* C1: linear-chain completeness: with a non-empty pattern, every index
\* range [s, s+|P|-1] of the scanned sequence whose content equals P is in
\* the list find_all_matches returned exactly once, overlapping ranges
\* included.
C1_EveryOccurrenceOnce ==
    (engine = "DFA" /\ Found /\ pattern # <<>>) =>
        \A s \in 0..(Len(seq) - Len(pattern)) :
            OccursAt(s) => Count(ret.matches, <<s, s + Len(pattern) - 1>>) = 1

\* C2: linear-chain soundness: with a non-empty pattern of length n, every
\* returned pair (start, end) has end - start + 1 = n, start >= 0, and the
\* uppercased sequence restricted to [start, end] equals the pattern, also
\* when the sequence holds characters outside the alphabet.
C2_EveryWindowIsPattern ==
    (engine = "DFA" /\ Found /\ pattern # <<>>) =>
        \A w \in Returned :
            /\ w[2] - w[1] + 1 = Len(pattern)
            /\ w[1] >= 0
            /\ OccursAt(w[1])

\* A window [a, b] of s all of whose mirrored pairs are complements.
ValidWindow(s, a, b) ==
    \A i \in 0..(b - a) : Comp(s[a + i + 1]) = s[b - i + 1]

Windows(s) == {w \in (0..(Len(s) - 1)) \X (0..(Len(s) - 1)) : w[1] <= w[2]}

\* A window that cannot grow by one symbol on both sides.
Maximal(s, a, b) ==
    a = 0 \/ b = Len(s) - 1 \/ Comp(s[a]) # s[b + 2]

\* C3 (as stated): palindrome completeness: every window of length >= L
\* whose mirrored pairs are all complements is in the returned list, windows
\* nested inside a longer valid window with the same center included.
C3_EveryValidWindow ==
    (engine = "PDA" /\ Found) =>
        \A w \in Windows(Scanned) :
            (w[2] - w[1] + 1 >= min_len /\ ValidWindow(Scanned, w[1], w[2]))
                => w \in Returned

\* C3 (amended): every valid window of even length >= L that cannot be
\* extended by one symbol on both sides (start = 0, or end = |S|-1, or
\* complement(S[start-1]) # S[end+1]) is in the returned list.
C3_EveryMaximalValidWindow ==
    (engine = "PDA" /\ Found) =>
        \A w \in Windows(Scanned) :
            ( /\ w[2] - w[1] + 1 >= min_len
              /\ (w[2] - w[1] + 1) % 2 = 0
              /\ ValidWindow(Scanned, w[1], w[2])
              /\ Maximal(Scanned, w[1], w[2]) )
                => w \in Returned

\* A scan that returned a maximal window and left out a valid window of
\* length >= L nested in it.
C3_Witness ==
    /\ engine = "PDA" /\ Found
    /\ \E w \in Returned : \E v \in Windows(Scanned) :
          /\ v[1] > w[1] /\ v[2] < w[2]
          /\ v[2] - v[1] + 1 >= min_len
          /\ ValidWindow(Scanned, v[1], v[2])
          /\ v \notin Returned

\* C4: palindrome soundness: every returned pair (start, end) satisfies
\* 0 <= start <= end < |S|, end - start + 1 >= L with L at least the floor
\* 2, and complement(S[start+i]) = S[end-i] for every i in 0..end-start,
\* complement being the engine's own _comp.
C4_EveryWindowValid ==
    (engine = "PDA" /\ Found) =>
        /\ min_len >= MinLenFloor
        /\ \A w \in Returned :
              /\ 0 <= w[1] /\ w[1] <= w[2] /\ w[2] < Len(seq)
              /\ w[2] - w[1] + 1 >= min_len
              /\ ValidWindow(Scanned, w[1], w[2])

\* C5: on either engine, when find_all_matches returns, the configuration
\* is the initial one: DFA current_state = 0; PDA stack empty, pos = 0 and
\* mode = "push".
C5_FindLeavesInitialConfiguration ==
    Found =>
        /\ engine = "DFA" => current_state = 0
        /\ engine = "PDA" => (stack = <<>> /\ pos = 0 /\ mode = "push")

\* C6: idempotence: a find_all_matches call that directly follows a
\* find_all_matches call on the same sequence (whatever the configuration
\* the first started from, a reset one included) returns the same list.
C6_SecondScanSameList ==
    (ret.op = "find" /\ prevFind # <<>>) =>
        (ret.raised = "" /\ ret.matches = prevFind[1])

\* Two scans in a row on the linear-chain engine that found a match.
C6_Witness ==
    /\ engine = "DFA" /\ Found
    /\ prevFind # <<>>
    /\ ret.matches # <<>>

\* C7: a linear-chain engine built from the empty pattern never matches:
\* find_all_matches returns the empty list, every step returns accept =
\* false without raising, and the current state stays 0.
C7_EmptyPatternNeverMatches ==
    (engine = "DFA" /\ pattern = <<>>) =>
        /\ current_state = 0
        /\ ret.raised = ""
        /\ ret.op = "find" => ret.matches = <<>>
        /\ ret.op = "step" => ~ret.accept

\* The empty-pattern engine stepped on an alphabet symbol right after a
\* scan of a sequence of full length.
C7_Witness ==
    /\ engine = "DFA" /\ pattern = <<>>
    /\ ret.op = "step" /\ ret.arg \in Alphabet
    /\ prevFind # <<>> /\ Len(seq) = MaxCallSeqLen

\* C8: step on a symbol that is outside {A,T,G,C} once uppercased raises
\* nothing and returns accept = false; on the linear-chain engine the
\* current state after the call is the state before it.
C8_UnknownSymbolTolerated ==
    (ret.op = "step" /\ Upper(ret.arg) \notin Alphabet) =>
        /\ ret.raised = ""
        /\ ~ret.accept
        /\ engine = "DFA" => current_state = ret.old

\* The linear-chain engine stepped on "N" in the middle of a partial match.
C8_Witness ==
    /\ engine = "DFA"
    /\ ret.op = "step" /\ ret.arg = "N"
    /\ current_state > 0

\* C9: create_automaton with a tag that is none of the four supported ones
\* fails with an error whose message contains the tag, and no engine is
\* constructed.
C9_UnknownTagFails ==
    (ret.op = "create" /\ ret.arg \notin Supported) =>
        /\ ret.raised = "ValueError"
        /\ \E k \in DOMAIN ret.msg : ret.msg[k] = ret.arg
        /\ engine = "none"

\* create_automaton was called with the tag "XYZ".
C9_Witness == ret.op = "create" /\ ret.arg = "XYZ"

\* The scan indices at which step, fed seq from the reset state, accepts.
RECURSIVE StateAfter(_, _, _, _, _)
StateAfter(p, tr, cs, s, k) ==
    IF k = 0 THEN cs
    ELSE DFAStepResult(p, tr, StateAfter(p, tr, cs, s, k - 1), s[k]).state

AcceptsAt(i) ==
    DFAStepResult(pattern, transitions,
                  StateAfter(pattern, transitions, 0, seq, i), seq[i + 1]).accept

\* C10: pattern "ATG": scanning "CATGATG" returns exactly [(1,3),(4,6)],
\* and on every sequence the returned windows are exactly (i-2, i) for the
\* scan indices i at which step accepted, in scan order.
C10_ScenarioATG ==
    (engine = "DFA" /\ pattern = ATG /\ Found) =>
        /\ seq = CATGATG => ret.matches = << <<1, 3>>, <<4, 6>> >>
        /\ \A k \in DOMAIN ret.matches :
              /\ ret.matches[k][1] = ret.matches[k][2] - 2
              /\ AcceptsAt(ret.matches[k][2])
              /\ k > 1 => ret.matches[k - 1][2] < ret.matches[k][2]
        /\ \A i \in 0..(Len(seq) - 1) : AcceptsAt(i) => <<i - 2, i>> \in Returned

\* "ATG" has scanned "CATGATG".
C10_Witness ==
    /\ engine = "DFA" /\ pattern = ATG /\ Found
    /\ seq = CATGATG

\* C11: in the palindrome finder a symbol outside {A,T,G,C} always fails
\* the complement check, so no returned window holds a character outside
\* {A,T,G,C}, whatever characters the sequence holds ("?" included).
C11_WindowsHoldOnlyBases ==
    (engine = "PDA" /\ Found) =>
        \A w \in Returned : \A k \in w[1]..w[2] : Scanned[k + 1] \in Alphabet

\* The target the linear chain gives state i on sym for pattern p.
ChainTarget(p, i, sym) ==
    IF sym = p[i + 1]
    THEN (IF i = Len(p) - 1 THEN 0 ELSE i + 1)
    ELSE (IF sym = p[1] THEN 1 ELSE 0)

\* C12: for a non-empty pattern of length n the table get_transitions
\* returns is total and single-valued over states 0..n-1 and the four
\* symbols, every target in 0..n-1: from state i on P[i] the target is i+1
\* (0 when i = n-1); on any other symbol it is 1 if the symbol equals P[0]
\* and 0 otherwise.
C12_TransitionTable ==
    (engine = "DFA" /\ pattern # <<>>) =>
        LET n == Len(pattern)
            nd == GetTransitions(transitions)
        IN /\ DOMAIN nd = (0..(n - 1)) \X Alphabet
           /\ \A k \in DOMAIN nd :
                 /\ nd[k] = {ChainTarget(pattern, k[1], k[2])}
                 /\ nd[k] \subseteq 0..(n - 1)

\* An engine whose pattern repeats its first character later on, so that a
\* mismatch edge to state 1 exists.
C12_Witness ==
    /\ engine = "DFA" /\ Len(pattern) = MaxPatLen
    /\ \E i \in 1..(Len(pattern) - 1) : \E sym \in Alphabet :
          sym # pattern[i + 1] /\ transitions[<<i, sym>>] = 1

\* The transition that completes the pattern was just taken.
Completing ==
    /\ pattern # <<>>
    /\ ret.old = Len(pattern) - 1
    /\ Upper(ret.arg) = pattern[Len(pattern)]
    /\ current_state = 0

\* C13: step returns accept = true exactly when the state
\* before was n-1, the uppercased symbol is the pattern's final character
\* and the state after is 0.
C13_AcceptIffCompleting ==
    (engine = "DFA" /\ ret.op = "step") => (ret.accept <=> Completing)

\* C13 narrowed to the symbols step acts on: accept = true exactly when
\* the uppercased symbol is one of {A,T,G,C}, the state before was n-1, the
\* symbol is the pattern's final character and the state after is 0.
C13_AcceptIffCompletingBase ==
    (engine = "DFA" /\ ret.op = "step") =>
        (ret.accept <=> (Upper(ret.arg) \in Alphabet /\ Completing))


\* C14: after any reset and step calls the PDA stack holds exactly the last
\* min(k, 8) symbols (uppercased) stepped since the most recent reset,
\* k = pos, oldest first; its length never exceeds 8.
C14_StackIsLastEight ==
    engine = "PDA" =>
        /\ pos = Len(log)
        /\ stack = KeepLast(log, IF pos < StackDepth THEN pos ELSE StackDepth)
        /\ Len(stack) <= StackDepth

\* More than 8 symbols were stepped and the oldest one left differs from
\* the newest.
C14_Witness ==
    /\ engine = "PDA"
    /\ pos > StackDepth
    /\ stack[1] # stack[Len(stack)]
    /\ log[1] # stack[1]

\* C15: after a reset the mode is "push" through the first 8 steps, turns
\* "pop" on the 9th and stays "pop" until the next reset: mode = "pop"
\* exactly when more than 8 symbols were stepped since the last reset.
C15_PopExactlyPastEight ==
    engine = "PDA" => (mode = "pop" <=> Len(log) > StackDepth)

\* The 10th step since the reset has left the mode "pop".
C15_Witness ==
    /\ engine = "PDA"
    /\ mode = "pop"
    /\ Len(log) > StackDepth + 1

\* C16: on both engines the list find_all_matches returns is strictly
\* increasing in lexicographic (start, end) order, hence without
\* duplicates, and every pair satisfies 0 <= start <= end < |S|.
C16_SortedWindowsInRange ==
    Found =>
        /\ \A k \in 1..(Len(ret.matches) - 1) :
              LexLess(ret.matches[k], ret.matches[k + 1])
        /\ \A w \in Returned :
              0 <= w[1] /\ w[1] <= w[2] /\ w[2] < Len(seq)

\* A scan that returned three windows.
C16_Witness == Found /\ Len(ret.matches) >= 3

\* C17: every window (L, R) the palindrome finder returns is the maximal
\* expansion about its center: L = 0, or R = |S|-1, or complement(S[L-1])
\* differs from S[R+1].
C17_ReturnedWindowsMaximal ==
    (engine = "PDA" /\ Found) =>
        \A w \in Returned : Maximal(Scanned, w[1], w[2])

\* A returned window that touches neither end of the sequence.
C17_Witness ==
    /\ engine = "PDA" /\ Found
    /\ \E w \in Returned : w[1] > 0 /\ w[2] < Len(seq) - 1

\* The list find_all_matches returns when it runs alone on seq.
Alone == DFAScan(pattern, transitions, 0, seq, 0, <<>>).matches

\* C18: the linear-chain engine has no mutual exclusion: a second caller's
\* step between two loop passes of a running find_all_matches can change
\* the list it returns (the state C18_Witness is reachable), and the list
\* differs from the one returned alone only when such a step came between.
C18_DiffersOnlyWhenInterleaved ==
    (engine = "DFA" /\ Found /\ ret.matches # Alone) => scan.interleaved

\* A scan that another caller's step came into returned a list that is
\* not the one it returns alone.
C18_Witness ==
    /\ engine = "DFA" /\ Found
    /\ scan.interleaved
    /\ ret.matches # Alone

\* C19: for every pattern, the empty one included, every state the
\* linear-chain engine refers to is in get_states(): the current state, the
\* initial states, the accepting states, and every source and target of
\* get_transitions().
C19_StatesAreListed ==
    engine = "DFA" =>
        LET states == GetStates(pattern)
            nd == GetTransitions(transitions)
        IN /\ current_state \in states
           /\ GetInitialStates \subseteq states
           /\ GetAcceptStates \subseteq states
           /\ \A k \in DOMAIN nd : k[1] \in states /\ nd[k] \subseteq states

\* C20: with a non-empty pattern, after a reset and steps on symbols of
\* {A,T,G,C} only, a current state i > 0 means the last i symbols stepped
\* are P[0..i-1]; the log holds the last MaxPatLen symbols stepped since
\* the reset.
C20_StateIsMatchedPrefix ==
    ( /\ engine = "DFA" /\ pattern # <<>>
      /\ current_state > 0
      /\ \A k \in DOMAIN log : log[k] \in Alphabet ) =>
        /\ Len(log) >= current_state
        /\ KeepLast(log, current_state) = SubSeq(pattern, 1, current_state)

\* The engine stands one symbol before the end of a pattern of full
\* length, with one more symbol stepped before the matched prefix.
C20_Witness ==
    /\ engine = "DFA" /\ Len(pattern) = MaxPatLen
    /\ current_state = MaxPatLen - 1
    /\ Len(log) = MaxPatLen
    /\ \A k \in DOMAIN log : log[k] \in Alphabet

====
